---- MODULE Spec2Model ----
(***************************************************************************)
(* State-machine model of the API in src/: the bearer-token guard, the     *)
(* user service over the Usuarios table, the process-wide registry         *)
(* DatabaseAgent.CONNECTION_STRINGS and the FastAPI routes over them.      *)
(* One action per route; an action is the whole request: dependency        *)
(* (guard), request validation, handler, service call, response            *)
(* serialisation.                                                          *)
(***************************************************************************)
EXTENDS Integers, Sequences, FiniteSets, TLC

VARIABLES
    CONNECTION_STRINGS, \* DatabaseAgent.CONNECTION_STRINGS: name -> connection string
    Usuarios,           \* rows of table Usuarios: [username, password_hash]
    OPENAI_API_KEY,     \* os.environ['OPENAI_API_KEY']
    now,                \* wall clock read by jwt.decode
    bcrypt_truncates,   \* installed bcrypt: TRUE silently truncates at 72 bytes, FALSE raises
    focus,              \* which inputs this run enumerates in full (fixed by Init)
    env,                \* os.environ after load_dotenv(): the variables that are set
    phase,              \* "importing" (main.py is being imported), "serving", "refused"
    inflight,           \* per caller: the registry call it has in flight and how far it is
    running,            \* the caller whose handler holds the event loop, or NoCaller
    serial,             \* the registry of the calls run one at a time, in the order they took effect
    req,                \* the request being answered
    resp                \* its response

vars ==
    <<CONNECTION_STRINGS, Usuarios, OPENAI_API_KEY, now, bcrypt_truncates, focus, env, phase,
      inflight, running, serial, req, resp>>

concurrent == <<inflight, running, serial>>

state == <<CONNECTION_STRINGS, Usuarios, OPENAI_API_KEY>>

(***************************************************************************)
(* Bounds and program constants                                            *)
(***************************************************************************)
MaxTime == 1
NumCallers == 2

HTTP_200_OK == 200
HTTP_201_CREATED == 201
HTTP_400_BAD_REQUEST == 400
HTTP_401_UNAUTHORIZED == 401
HTTP_403_FORBIDDEN == 403
HTTP_404_NOT_FOUND == 404
HTTP_422_UNPROCESSABLE == 422
HTTP_500_INTERNAL_SERVER_ERROR == 500
BCRYPT_MAX_BYTES == 72

SECRET_KEY == "SECRET_KEY"
ALGORITHM == "HS256"
DRIVER_NAME == "ODBC Driver 17 for SQL Server"
AVAILABLE_MODELS == {"gpt-4o-mini", "gpt-4-turbo", "gpt-4", "gpt-3.5-turbo"}

Min(a, b) == IF a < b THEN a ELSE b

(***************************************************************************)
(* Input sets                                                              *)
(***************************************************************************)
\* bcrypt.gensalt(): every run draws salts; the runs about users draw from two.
Salts == IF focus = "users" THEN {"saltA", "saltB"} ELSE {"saltA"}

\* password.encode('utf-8'): a byte sequence. pwMax is exactly 72 bytes long,
\* pwOver is pwMax with one more byte.
pw1 == <<1>>
pwMax == [i \in 1..BCRYPT_MAX_BYTES |-> 7]
pwOver == pwMax \o <<1>>
Passwords == {pw1, pwMax, pwOver}

RegisterNames == {"alice", ""}
LoginNames == {"alice", "", "bob"}

B1 == "Banco de dados 1"
B2 == "Banco de dados 2"
DbNames == {B1, "X", ""}
ApiKeys == {"", "sk-req"}
Questions == {"", "q"}
Models == {"gpt-4", "llama"}

(***************************************************************************)
(* bcrypt                                                                  *)
(***************************************************************************)
\* bcrypt.hashpw(password, salt): only the first 72 bytes enter the digest;
\* a release that does not truncate raises ValueError on a longer password.
bcrypt_hashpw(password, salt, truncates) ==
    IF Len(password) > BCRYPT_MAX_BYTES /\ ~truncates
    THEN [exc |-> "ValueError", hash |-> [salt |-> salt, digest |-> <<>>]]
    ELSE [exc |-> "",
          hash |-> [salt |-> salt,
                    digest |-> SubSeq(password, 1, Min(Len(password), BCRYPT_MAX_BYTES))]]

\* bcrypt.checkpw(password, hashed): re-hash with the stored salt and compare.
bcrypt_checkpw(password, hashed, truncates) ==
    LET h == bcrypt_hashpw(password, hashed.salt, truncates)
    IN  [exc |-> h.exc, ok |-> h.exc = "" /\ h.hash = hashed]

(***************************************************************************)
(* JWT                                                                     *)
(***************************************************************************)
HMAC(key, alg, payload) == [key |-> key, alg |-> alg, msg |-> payload]

jwt_encode(payload, key, algorithm) ==
    [kind |-> "jwt", alg |-> algorithm, payload |-> payload,
     sig |-> HMAC(key, algorithm, payload)]

\* jwt.decode validating the exp claim before the signature.
jwt_decode_ExpBeforeSignature(token, key, algorithms, t) ==
    IF token.kind # "jwt" THEN "DecodeError"
    ELSE IF token.alg \notin algorithms THEN "InvalidAlgorithmError"
    ELSE IF "exp" \in DOMAIN token.payload /\ token.payload["exp"] <= t
         THEN "ExpiredSignatureError"
    ELSE IF token.sig # HMAC(key, token.alg, token.payload) THEN "InvalidSignatureError"
    ELSE "ok"

\* jwt.decode: structure, algorithm allow-list, signature, then the exp claim.
jwt_decode(token, key, algorithms, t) ==
    IF token.kind # "jwt" THEN "DecodeError"
    ELSE IF token.alg \notin algorithms THEN "InvalidAlgorithmError"
    ELSE IF token.sig # HMAC(key, token.alg, token.payload) THEN "InvalidSignatureError"
    ELSE IF "exp" \in DOMAIN token.payload /\ token.payload["exp"] <= t
         THEN "ExpiredSignatureError"
    ELSE "ok"

create_access_token(data) == jwt_encode(data, SECRET_KEY, ALGORITHM)

verify_token(token, t) ==
    LET d == jwt_decode(token, SECRET_KEY, {ALGORITHM}, t)
    IN  IF d = "ExpiredSignatureError"
        THEN [status_code |-> HTTP_401_UNAUTHORIZED, detail |-> "Token expirado.", username |-> ""]
        ELSE IF d # "ok"
        THEN [status_code |-> HTTP_401_UNAUTHORIZED, detail |-> "Token invalido.", username |-> ""]
        ELSE IF "username" \notin DOMAIN token.payload \/ token.payload["username"] = ""
        THEN [status_code |-> HTTP_401_UNAUTHORIZED,
              detail |-> "Token invalido. Usuario nao encontrado.", username |-> ""]
        ELSE [status_code |-> HTTP_200_OK, detail |-> "", username |-> token.payload["username"]]

NoCredentials == [kind |-> "none"]
Garbage == [kind |-> "garbage"]

\* HTTPBearer() (auto_error): a request without credentials is refused by the
\* scheme itself, with 403 or 401 depending on the installed framework.
bearer_scheme(credentials) ==
    IF credentials = NoCredentials
    THEN {[status_code |-> s, detail |-> "Not authenticated", username |-> ""] :
             s \in {HTTP_403_FORBIDDEN, HTTP_401_UNAUTHORIZED}}
    ELSE {}

get_current_user(credentials, t) ==
    IF bearer_scheme(credentials) # {} THEN bearer_scheme(credentials)
    ELSE IF credentials = NoCredentials
    THEN {[status_code |-> HTTP_401_UNAUTHORIZED, detail |-> "Token nao fornecido.", username |-> ""]}
    ELSE {verify_token(credentials, t)}

(***************************************************************************)
(* UserService over the Usuarios table                                     *)
(***************************************************************************)
\* INSERT INTO Usuarios: username is the table's primary key, a second row
\* for a stored username is rejected by the store.
Usuarios_insert(US, row) ==
    IF \E r \in US : r.username = row.username
    THEN [exc |-> "IntegrityError", US |-> US]
    ELSE [exc |-> "", US |-> US \cup {row}]

\* UPDATE Usuarios SET password_hash = :password WHERE username = :username
Usuarios_update(US, username, hash) ==
    [rowcount |-> Cardinality({r \in US : r.username = username}),
     US |-> {IF r.username = username THEN [r EXCEPT !.password_hash = hash] ELSE r : r \in US}]

TooLong == "password cannot be longer than 72 bytes"

\* register_user falling back to an update when the insert is rejected.
UserService_register_user_Upsert(US, username, password, confirm_password, salt, truncates) ==
    IF password # confirm_password
    THEN [exc |-> "ValueError", detail |-> "As senhas nao coincidem.", US |-> US]
    ELSE LET h == bcrypt_hashpw(password, salt, truncates)
         IN  IF h.exc # ""
             THEN [exc |-> h.exc, detail |-> TooLong, US |-> US]
             ELSE LET ins == Usuarios_insert(US, [username |-> username, password_hash |-> h.hash])
                  IN  IF ins.exc # ""
                      THEN [exc |-> "", detail |-> "", US |-> Usuarios_update(US, username, h.hash).US]
                      ELSE [exc |-> "", detail |-> "", US |-> ins.US]

UserService_register_user(US, username, password, confirm_password, salt, truncates) ==
    IF password # confirm_password
    THEN [exc |-> "ValueError", detail |-> "As senhas nao coincidem.", US |-> US]
    ELSE LET h == bcrypt_hashpw(password, salt, truncates)
         IN  IF h.exc # ""
             THEN [exc |-> h.exc, detail |-> TooLong, US |-> US]
             ELSE LET ins == Usuarios_insert(US, [username |-> username, password_hash |-> h.hash])
                  IN  IF ins.exc # ""
                      THEN [exc |-> "Exception",
                            detail |-> "Erro ao cadastrar usuario: " \o ins.exc, US |-> US]
                      ELSE [exc |-> "", detail |-> "", US |-> ins.US]

UserService_login_user(US, username, password, truncates) ==
    LET rows == {r \in US : r.username = username}
        bad  == [exc |-> "ValueError", detail |-> "Usuario ou senha incorretos.",
                 access_token |-> NoCredentials]
    IN  IF rows = {} THEN bad
        ELSE LET user_data == CHOOSE r \in rows : TRUE
                 c == bcrypt_checkpw(password, user_data.password_hash, truncates)
             IN  IF c.exc # ""
                 THEN [exc |-> c.exc, detail |-> TooLong, access_token |-> NoCredentials]
                 ELSE IF ~c.ok THEN bad
                 ELSE [exc |-> "", detail |-> "",
                       access_token |-> create_access_token([username |-> user_data.username])]

\* reset_password without conn.commit(): the update is rolled back.
UserService_reset_password_NoCommit(US, username, new_password, confirm_password, salt, truncates) ==
    IF new_password # confirm_password
    THEN [exc |-> "ValueError", detail |-> "As senhas nao coincidem.", US |-> US]
    ELSE LET h == bcrypt_hashpw(new_password, salt, truncates)
         IN  IF h.exc # ""
             THEN [exc |-> h.exc, detail |-> TooLong, US |-> US]
             ELSE LET u == Usuarios_update(US, username, h.hash)
                  IN  IF u.rowcount = 0
                      THEN [exc |-> "ValueError", detail |-> "Usuario nao encontrado.", US |-> US]
                      ELSE [exc |-> "", detail |-> "", US |-> US]

UserService_reset_password(US, username, new_password, confirm_password, salt, truncates) ==
    IF new_password # confirm_password
    THEN [exc |-> "ValueError", detail |-> "As senhas nao coincidem.", US |-> US]
    ELSE LET h == bcrypt_hashpw(new_password, salt, truncates)
         IN  IF h.exc # ""
             THEN [exc |-> h.exc, detail |-> TooLong, US |-> US]
             ELSE LET u == Usuarios_update(US, username, h.hash)
                  IN  IF u.rowcount = 0
                      THEN [exc |-> "ValueError", detail |-> "Usuario nao encontrado.", US |-> u.US]
                      ELSE [exc |-> "", detail |-> "", US |-> u.US]

(***************************************************************************)
(* DatabaseAgent.CONNECTION_STRINGS and DatabaseService                    *)
(***************************************************************************)
DictSet(d, k, v) == [x \in DOMAIN d \cup {k} |-> IF x = k THEN v ELSE d[x]]
DictDel(d, k) == [x \in DOMAIN d \ {k} |-> d[x]]

\* The f-string of DatabaseService.create_database.
ConnectionString(driver, server, database, user, password) ==
    "DRIVER={" \o driver \o "};SERVER=" \o server \o ";DATABASE=" \o database
        \o ";UID=" \o user \o ";PWD=" \o password \o ";"

\* The variables the program reads at import time.
EnvVars ==
    {"SECRET_KEY", "DB_DRIVER", "DB_SERVER", "DB_DATABASE", "DB_TRUSTED_CONNECTION",
     "DB_USER", "DB_PASSWORD",
     "DB_DRIVER_CRM", "DB_SERVER_CRM", "DB_DATABASE_CRM", "DB_USER_CRM", "DB_PASSWORD_CRM"}

\* Every variable set, or all but one.
Environments == {EnvVars} \cup {EnvVars \ {v} : v \in EnvVars}

\* os.getenv(v) as an f-string renders it: the value ("$v"), or None.
os_getenv(e, v) == IF v \in e THEN "$" \o v ELSE "None"

required_env_vars == {"DB_DRIVER", "DB_SERVER", "DB_DATABASE", "DB_TRUSTED_CONNECTION"}

\* The module-level checks of user_service.py: the exception raised, or "".
import_user_service(e) ==
    IF "SECRET_KEY" \notin e THEN "ValueError"
    ELSE IF required_env_vars \ e # {} THEN "ValueError"
    ELSE ""

\* The class attribute as built at import time from the environment e.
ConnectionStringsFrom(e) ==
    B1 :> ConnectionString(os_getenv(e, "DB_DRIVER"), os_getenv(e, "DB_SERVER"),
                           os_getenv(e, "DB_DATABASE"), os_getenv(e, "DB_USER"),
                           os_getenv(e, "DB_PASSWORD"))
    @@ B2 :> ConnectionString(os_getenv(e, "DB_DRIVER_CRM"), os_getenv(e, "DB_SERVER_CRM"),
                              os_getenv(e, "DB_DATABASE_CRM"), os_getenv(e, "DB_USER_CRM"),
                              os_getenv(e, "DB_PASSWORD_CRM"))

\* The class attribute when every variable is set.
InitialConnectionStrings == ConnectionStringsFrom(EnvVars)

add_connection(CS, db_name, connection_string) ==
    IF db_name \in DOMAIN CS
    THEN [exc |-> "ValueError", detail |-> "Banco de dados '" \o db_name \o "' ja existe", CS |-> CS]
    ELSE [exc |-> "", detail |-> "", CS |-> DictSet(CS, db_name, connection_string)]

AlreadyExists(db_name) ==
    "Ja existe um banco de dados cadastrado com o nome '" \o db_name \o "'"
NotFound(db_name) == "Banco de dados '" \o db_name \o "' nao encontrado"

\* validate_connection_params without its last test (the name is taken).
validate_connection_params_NoDuplicateTest(CS, db_name, server, database, user, password) ==
    IF db_name = "" THEN "Nome do banco de dados e obrigatorio"
    ELSE IF server = "" THEN "Servidor e obrigatorio"
    ELSE IF database = "" THEN "Database e obrigatorio"
    ELSE IF user = "" THEN "Usuario e obrigatorio"
    ELSE IF password = "" THEN "Senha e obrigatoria"
    ELSE ""

\* Returns the ValueError message, "" when the parameters pass.
validate_connection_params(CS, db_name, server, database, user, password) ==
    IF db_name = "" THEN "Nome do banco de dados e obrigatorio"
    ELSE IF server = "" THEN "Servidor e obrigatorio"
    ELSE IF database = "" THEN "Database e obrigatorio"
    ELSE IF user = "" THEN "Usuario e obrigatorio"
    ELSE IF password = "" THEN "Senha e obrigatoria"
    ELSE IF db_name \in DOMAIN CS THEN AlreadyExists(db_name)
    ELSE ""

DatabaseService_create_database(CS, db_name, server, database, user, password) ==
    LET v == validate_connection_params(CS, db_name, server, database, user, password)
        a == add_connection(CS, db_name,
                            ConnectionString(DRIVER_NAME, server, database, user, password))
    IN  IF v # ""
        THEN [raised |-> TRUE, status_code |-> HTTP_400_BAD_REQUEST, detail |-> v, CS |-> CS]
        ELSE IF a.exc # ""
        THEN [raised |-> TRUE, status_code |-> HTTP_400_BAD_REQUEST, detail |-> a.detail, CS |-> CS]
        ELSE [raised |-> FALSE, status_code |-> 0,
              detail |-> "Banco de dados '" \o db_name \o "' criado com sucesso.", CS |-> a.CS]

\* delete_database clearing the whole dictionary instead of one key.
DatabaseService_delete_database_Clear(CS, db_name) ==
    IF db_name = "" \/ db_name \notin DOMAIN CS
    THEN [raised |-> TRUE, status_code |-> HTTP_404_NOT_FOUND, detail |-> NotFound(db_name), CS |-> CS]
    ELSE [raised |-> FALSE, status_code |-> 0,
          detail |-> "Banco de dados '" \o db_name \o "' removido com sucesso.",
          CS |-> DictDel(DictDel(CS, db_name), B2)]

DatabaseService_delete_database(CS, db_name) ==
    IF db_name = ""
    THEN [raised |-> TRUE, status_code |-> HTTP_404_NOT_FOUND,
          detail |-> "Nome do banco de dados e obrigatorio", CS |-> CS]
    ELSE IF db_name \notin DOMAIN CS
    THEN [raised |-> TRUE, status_code |-> HTTP_404_NOT_FOUND, detail |-> NotFound(db_name), CS |-> CS]
    ELSE [raised |-> FALSE, status_code |-> 0,
          detail |-> "Banco de dados '" \o db_name \o "' removido com sucesso.",
          CS |-> DictDel(CS, db_name)]

DatabaseService_get_connection_string(CS, db_name) ==
    IF db_name = ""
    THEN [raised |-> TRUE, status_code |-> HTTP_404_NOT_FOUND,
          detail |-> "Nome do banco de dados e obrigatorio", CS |-> CS]
    ELSE IF db_name \notin DOMAIN CS
    THEN [raised |-> TRUE, status_code |-> HTTP_404_NOT_FOUND, detail |-> NotFound(db_name), CS |-> CS]
    ELSE [raised |-> FALSE, status_code |-> 0, detail |-> CS[db_name], CS |-> CS]

(***************************************************************************)
(* DatabaseAgent (the external query agent behind /ask)                    *)
(***************************************************************************)
\* ext: what the collaborators do on this request: "ok", "init_fails"
\* (SQLDatabase.from_uri, ChatOpenAI or hub.pull raises), "invoke_fails".
Externals == {"ok", "init_fails", "invoke_fails"}

_validate_inputs(CS, db_name, model) ==
    IF db_name = "" \/ db_name \notin DOMAIN CS THEN NotFound(db_name)
    ELSE IF model = "" THEN "Modelo de linguagem nao especificado"
    ELSE ""

\* os.environ['OPENAI_API_KEY'] after _setup_environment.
_setup_environment(KEY, api_key) == IF api_key # "" THEN api_key ELSE KEY

DatabaseAgent_init(CS, KEY, db_name, model, api_key, ext) ==
    LET v == _validate_inputs(CS, db_name, model)
    IN  IF v # ""
        THEN [raised |-> TRUE, status_code |-> HTTP_500_INTERNAL_SERVER_ERROR,
              detail |-> "Erro ao inicializar agente de banco de dados: " \o v, KEY |-> KEY]
        ELSE IF ext = "init_fails"
        THEN [raised |-> TRUE, status_code |-> HTTP_500_INTERNAL_SERVER_ERROR,
              detail |-> "Erro ao inicializar agente de banco de dados: external",
              KEY |-> _setup_environment(KEY, api_key)]
        ELSE [raised |-> FALSE, status_code |-> 0, detail |-> "",
              KEY |-> _setup_environment(KEY, api_key)]

DatabaseAgent_ask_question(question, ext) ==
    IF question = ""
    THEN [raised |-> TRUE, status_code |-> HTTP_500_INTERNAL_SERVER_ERROR,
          detail |-> "Erro ao processar pergunta: Pergunta nao pode estar vazia", agent_calls |-> 0]
    ELSE IF ext = "invoke_fails"
    THEN [raised |-> TRUE, status_code |-> HTTP_500_INTERNAL_SERVER_ERROR,
          detail |-> "Erro ao processar pergunta: external", agent_calls |-> 1]
    ELSE [raised |-> FALSE, status_code |-> 0, detail |-> "answer", agent_calls |-> 1]

\* AskQueryRequest without the pattern and the validator of model.
AskQueryRequest_valid_AnyModel(CS, db_name, model) == db_name \in DOMAIN CS

\* AskQueryRequest: the pydantic validators of db_name and model.
AskQueryRequest_valid(CS, db_name, model) ==
    db_name \in DOMAIN CS /\ model \in AVAILABLE_MODELS

(***************************************************************************)
(* Routes                                                                  *)
(***************************************************************************)
\* Python values as the response serialiser sees them.
PyStr(s) == [t |-> "str", v |-> s]
PyDict(d) == [t |-> "dict", v |-> d]

\* response_model=Dict[str, str]
response_model_Dict_str_str(content) ==
    content.t = "dict" /\ \A k \in DOMAIN content.v : content.v[k].t = "str"

\* TokenResponse(access_token=...)
TokenResponse(access_token) == access_token

\* The route table with the dependency left off DELETE /delete_database.
GuardedRoutes_DeleteOpen ==
    {"register", "reset_password", "create_database", "databases", "models", "ask"}

\* The route table with the dependency left off POST /ask.
GuardedRoutes_AskOpen ==
    {"register", "reset_password", "create_database", "databases", "delete_database", "models"}

\* The routes declared with dependencies=[Depends(get_current_user)].
GuardedRoutes ==
    {"register", "reset_password", "create_database", "databases",
     "delete_database", "models", "ask"}

\* How the call into the service layer ended: "returned", the exception it
\* raised, "unprocessable" (request validation failed, handler not called) or
\* "refused" (a dependency raised, handler not called).
Svc(outcome, status_code, detail) ==
    [outcome |-> outcome, status_code |-> status_code, detail |-> detail]

\* What one request produces: the response and the state it leaves.
Result(status, detail, svc, CS, US, KEY) ==
    [status |-> status, detail |-> detail, svc |-> svc,
     access_token |-> NoCredentials, body |-> {}, agent_calls |-> 0,
     CS |-> CS, US |-> US, KEY |-> KEY]

Refused(g) ==
    Result(g.status_code, g.detail, Svc("refused", 0, ""),
           CONNECTION_STRINGS, Usuarios, OPENAI_API_KEY)

\* Route dependencies run first; the handler runs only if none raised.
Depends(op, credentials, handler) ==
    IF op \in GuardedRoutes
    THEN LET gs == get_current_user(credentials, now)
         IN  {Refused(g) : g \in {x \in gs : x.status_code # HTTP_200_OK}}
             \cup (IF \E g \in gs : g.status_code = HTTP_200_OK THEN handler ELSE {})
    ELSE handler

SvcOf(s) == Svc(IF s.exc = "" THEN "returned" ELSE s.exc, 0, s.detail)
SvcHttp(s) == Svc(IF s.raised THEN "HTTPException" ELSE "returned", s.status_code, s.detail)

register_user_handler(r) ==
    {LET s == UserService_register_user(Usuarios, r.username, r.password,
                                        r.confirm_password, salt, bcrypt_truncates)
         st == IF s.exc = "" THEN HTTP_201_CREATED
               ELSE IF s.exc = "ValueError" THEN HTTP_400_BAD_REQUEST
               ELSE HTTP_500_INTERNAL_SERVER_ERROR
         d  == IF s.exc = "" THEN "Usuario cadastrado com sucesso"
               ELSE IF s.exc = "ValueError" THEN s.detail
               ELSE "Erro interno ao cadastrar usuario: " \o s.detail
     IN  Result(st, d, SvcOf(s), CONNECTION_STRINGS, s.US, OPENAI_API_KEY) : salt \in Salts}

login_handler(r) ==
    {LET s == UserService_login_user(Usuarios, r.username, r.password, bcrypt_truncates)
         st == IF s.exc = "" THEN HTTP_200_OK
               ELSE IF s.exc = "ValueError" THEN HTTP_401_UNAUTHORIZED
               ELSE HTTP_500_INTERNAL_SERVER_ERROR
     IN  [Result(st, s.detail, SvcOf(s), CONNECTION_STRINGS, Usuarios, OPENAI_API_KEY)
            EXCEPT !.access_token = TokenResponse(s.access_token)]}

reset_password_handler(r) ==
    {LET s == UserService_reset_password(Usuarios, r.username, r.password,
                                         r.confirm_password, salt, bcrypt_truncates)
         st == IF s.exc = "" THEN HTTP_200_OK
               ELSE IF s.exc = "ValueError" THEN HTTP_400_BAD_REQUEST
               ELSE HTTP_500_INTERNAL_SERVER_ERROR
         d  == IF s.exc = "" THEN "Senha atualizada com sucesso"
               ELSE IF s.exc = "ValueError" THEN s.detail
               ELSE "Erro interno ao resetar senha: " \o s.detail
     IN  Result(st, d, SvcOf(s), CONNECTION_STRINGS, s.US, OPENAI_API_KEY) : salt \in Salts}

\* The service's HTTPException is an Exception: the route's handler turns it
\* into a 500. On success the route returns {"message": <the service's dict>}.
create_database_handler(r) ==
    {LET s == DatabaseService_create_database(CONNECTION_STRINGS, r.db_name, r.server,
                                              r.database, r.user, r.password)
         content == PyDict([message |-> PyDict([message |-> PyStr(s.detail)])])
     IN  IF s.raised
         THEN Result(HTTP_500_INTERNAL_SERVER_ERROR, "Erro ao criar banco de dados: " \o s.detail,
                     SvcHttp(s), s.CS, Usuarios, OPENAI_API_KEY)
         ELSE IF response_model_Dict_str_str(content)
         THEN Result(HTTP_201_CREATED, "", SvcHttp(s), s.CS, Usuarios, OPENAI_API_KEY)
         ELSE Result(HTTP_500_INTERNAL_SERVER_ERROR, "Internal Server Error",
                     SvcHttp(s), s.CS, Usuarios, OPENAI_API_KEY)}

delete_database_handler(r) ==
    {LET s == DatabaseService_delete_database(CONNECTION_STRINGS, r.db_name)
         content == PyDict([message |-> PyDict([message |-> PyStr(s.detail)])])
     IN  IF s.raised
         THEN Result(HTTP_500_INTERNAL_SERVER_ERROR, "Erro ao deletar banco de dados: " \o s.detail,
                     SvcHttp(s), s.CS, Usuarios, OPENAI_API_KEY)
         ELSE IF response_model_Dict_str_str(content)
         THEN Result(HTTP_200_OK, "", SvcHttp(s), s.CS, Usuarios, OPENAI_API_KEY)
         ELSE Result(HTTP_500_INTERNAL_SERVER_ERROR, "Internal Server Error",
                     SvcHttp(s), s.CS, Usuarios, OPENAI_API_KEY)}

\* The listing with the two built-in names always in it.
get_available_databases_handler_Seeded ==
    {[Result(HTTP_200_OK, "", Svc("returned", 0, ""), CONNECTION_STRINGS, Usuarios, OPENAI_API_KEY)
        EXCEPT !.body = DOMAIN CONNECTION_STRINGS \cup {B1, B2}]}

get_available_databases_handler ==
    {[Result(HTTP_200_OK, "", Svc("returned", 0, ""), CONNECTION_STRINGS, Usuarios, OPENAI_API_KEY)
        EXCEPT !.body = DOMAIN CONNECTION_STRINGS]}

get_available_models_handler ==
    {[Result(HTTP_200_OK, "", Svc("returned", 0, ""), CONNECTION_STRINGS, Usuarios, OPENAI_API_KEY)
        EXCEPT !.body = AVAILABLE_MODELS]}

ask_question_handler(r) ==
    IF ~AskQueryRequest_valid(CONNECTION_STRINGS, r.db_name, r.model)
    THEN {Result(HTTP_422_UNPROCESSABLE, "validation error", Svc("unprocessable", 0, ""),
                 CONNECTION_STRINGS, Usuarios, OPENAI_API_KEY)}
    ELSE {LET a == DatabaseAgent_init(CONNECTION_STRINGS, OPENAI_API_KEY, r.db_name,
                                      r.model, r.api_key, ext)
              q == DatabaseAgent_ask_question(r.question, ext)
          IN  IF a.raised
              THEN Result(HTTP_500_INTERNAL_SERVER_ERROR,
                          "Erro ao consultar o banco de dados: " \o a.detail,
                          SvcHttp(a), CONNECTION_STRINGS, Usuarios, a.KEY)
              ELSE IF q.raised
              THEN [Result(HTTP_500_INTERNAL_SERVER_ERROR,
                           "Erro ao consultar o banco de dados: " \o q.detail,
                           SvcHttp(q), CONNECTION_STRINGS, Usuarios, a.KEY)
                      EXCEPT !.agent_calls = q.agent_calls]
              ELSE [Result(HTTP_200_OK, "", SvcHttp(q), CONNECTION_STRINGS, Usuarios, a.KEY)
                      EXCEPT !.agent_calls = q.agent_calls] : ext \in Externals}

\* DatabaseService.get_connection_string, called in-process (no route wraps it).
get_connection_string_handler(r) ==
    {LET s == DatabaseService_get_connection_string(CONNECTION_STRINGS, r.db_name)
     IN  Result(IF s.raised THEN s.status_code ELSE HTTP_200_OK, s.detail, SvcHttp(s),
                s.CS, Usuarios, OPENAI_API_KEY)}

(***************************************************************************)
(* Requests                                                                *)
(***************************************************************************)
\* The token login issues for username u.
Issued(u) == create_access_token([username |-> u])

\* Tokens with a valid signature.
SignedTokens ==
    {Issued("alice"), Issued(""), create_access_token(<<>>)}
    \cup {create_access_token([username |-> "alice", exp |-> e]) : e \in 0..MaxTime}

\* Tokens signed with another key, with a payload swapped after signing, or
\* with another algorithm.
ForgedTokens ==
    {jwt_encode([username |-> "alice"], "other key", ALGORITHM),
     jwt_encode([username |-> "alice", exp |-> 0], "other key", ALGORITHM),
     [Issued("") EXCEPT !.payload = [username |-> "alice"]],
     jwt_encode([username |-> "alice"], "", "none")}

Tokens == {NoCredentials, Garbage} \cup SignedTokens \cup ForgedTokens

\* Three families of runs. Each enumerates one part of the input space in
\* full and sends one fixed, state-changing request to every other route:
\*   "registry": the registry routes, "users": the user routes,
\*   "auth": every token on every route.
RequestTokens == IF focus = "auth" THEN Tokens ELSE {NoCredentials, Issued("alice")}

\* The fixed request sent to a route outside the run's focus, and under
\* every token other than the one login issues.
RegisterProbe(r) == r.username = "" /\ r.password = pw1 /\ r.confirm_password = pw1
LoginProbe(r) == r.username = "alice" /\ r.password = pw1
ResetProbe(r) == r.username = "alice" /\ r.password = pwMax /\ r.confirm_password = pwMax
CreateProbe(r) ==
    r.db_name = "X" /\ r.server = "srv" /\ r.database = "db" /\ r.user = "usr" /\ r.password = "pwd"
DeleteProbe(r) == r.db_name = "X"
AskProbe(r) == r.question = "q" /\ r.db_name = B1 /\ r.model = "gpt-4" /\ r.api_key = "sk-req"

InFocus(f, r) == focus = f /\ r.token = Issued("alice")

RegisterRequests ==
    {r \in [op : {"register"}, token : RequestTokens, username : RegisterNames,
            password : Passwords, confirm_password : Passwords] :
        \/ RegisterProbe(r)
        \/ /\ InFocus("users", r)
           /\ r.confirm_password = r.password \/ (r.password = pw1 /\ r.confirm_password = pwMax)}

\* login takes no token into account: the runs about users send none.
LoginRequests ==
    {r \in [op : {"login"}, token : RequestTokens, username : LoginNames, password : Passwords] :
        \/ LoginProbe(r)
        \/ focus = "users" /\ r.token = NoCredentials}

ResetRequests ==
    {r \in [op : {"reset_password"}, token : RequestTokens, username : LoginNames,
            password : Passwords, confirm_password : Passwords] :
        \/ ResetProbe(r)
        \/ /\ InFocus("users", r)
           /\ r.confirm_password = r.password \/ (r.password = pw1 /\ r.confirm_password = pwMax)}

\* In focus: at most one of the four connection fields is empty.
CreateRequests ==
    {r \in [op : {"create_database"}, token : RequestTokens, db_name : DbNames,
            server : {"", "srv"}, database : {"", "db"}, user : {"", "usr"},
            password : {"", "pwd"}] :
        \/ CreateProbe(r)
        \/ /\ InFocus("registry", r)
           /\ Cardinality({f \in {"server", "database", "user", "password"} : r[f] = ""}) <= 1}

DeleteRequests ==
    {r \in [op : {"delete_database"}, token : RequestTokens, db_name : DbNames] :
        DeleteProbe(r) \/ InFocus("registry", r)}

\* In focus: at most one of question, model and api_key departs from the probe's.
AskRequests ==
    {r \in [op : {"ask"}, token : RequestTokens, question : Questions, db_name : DbNames,
            model : Models, api_key : ApiKeys] :
        \/ AskProbe(r)
        \/ /\ InFocus("registry", r)
           /\ r.db_name # ""
           /\ Cardinality({f \in {"question", "model", "api_key"} :
                              r[f] # (IF f = "question" THEN "q"
                                      ELSE IF f = "model" THEN "gpt-4" ELSE "sk-req")}) <= 1}

ResolveRequests ==
    {r \in [op : {"get_connection_string"}, token : {NoCredentials}, db_name : DbNames] :
        focus = "registry" \/ r.db_name = "X"}

(***************************************************************************)
(* The state machine                                                       *)
(***************************************************************************)
(***************************************************************************)
(* Concurrent registry calls                                               *)
(***************************************************************************)
Callers == 1..NumCallers
NoCaller == 0

Idle == [pc |-> "idle"]

\* The registry calls callers make concurrently: add, remove and resolve of
\* a built-in name and of a new one, and the listing.
ConcurrentRequests ==
    {[op |-> "create_database", db_name |-> n, server |-> "srv", database |-> "db",
      user |-> "usr", password |-> "pwd"] : n \in {B1, "X"}}
    \cup [op : {"delete_database", "get_connection_string"}, db_name : {B1, "X"}]
    \cup {[op |-> "databases"]}

\* What a call gives its caller: how the service ended, and the names listed.
Outcome(svc, body) == [svc |-> svc, body |-> body]

\* The call run in one piece on registry CS: its outcome and the registry after.
SerialCall(CS, r) ==
    IF r.op = "databases" THEN [out |-> Outcome(Svc("returned", 0, ""), DOMAIN CS), CS |-> CS]
    ELSE LET s == IF r.op = "create_database"
                  THEN DatabaseService_create_database(CS, r.db_name, r.server, r.database,
                                                       r.user, r.password)
                  ELSE IF r.op = "delete_database"
                  THEN DatabaseService_delete_database(CS, r.db_name)
                  ELSE DatabaseService_get_connection_string(CS, r.db_name)
         IN  [out |-> Outcome(SvcHttp(s), {}), CS |-> s.CS]

\* The handlers are `async def` and await nothing: once a handler has
\* started, the event loop runs no other request until it has returned.
HandlerYields_ThreadPool(op) == TRUE

HandlerYields(op) == FALSE

\* The call up to and including its last test of the registry: the call has
\* ended (done) with an outcome, or goes on to use the registry.
begin_call(CS, r) ==
    IF r.op = "databases"
    THEN [done |-> TRUE, out |-> Outcome(Svc("returned", 0, ""), DOMAIN CS)]
    ELSE IF r.op = "create_database"
    THEN LET v == validate_connection_params(CS, r.db_name, r.server, r.database,
                                             r.user, r.password)
         IN  IF v # ""
             THEN [done |-> TRUE,
                   out |-> Outcome(Svc("HTTPException", HTTP_400_BAD_REQUEST, v), {})]
             ELSE [done |-> FALSE, out |-> Outcome(Svc("returned", 0, ""), {})]
    ELSE IF r.db_name = ""
    THEN [done |-> TRUE,
          out |-> Outcome(Svc("HTTPException", HTTP_404_NOT_FOUND,
                              "Nome do banco de dados e obrigatorio"), {})]
    ELSE IF r.db_name \notin DOMAIN CS
    THEN [done |-> TRUE,
          out |-> Outcome(Svc("HTTPException", HTTP_404_NOT_FOUND, NotFound(r.db_name)), {})]
    ELSE [done |-> FALSE, out |-> Outcome(Svc("returned", 0, ""), {})]

\* The rest of the call: add_connection, `del` or the subscript, on the
\* registry as it is by then.
end_call(CS, r) ==
    IF r.op = "create_database"
    THEN LET a == add_connection(CS, r.db_name,
                                 ConnectionString(DRIVER_NAME, r.server, r.database,
                                                  r.user, r.password))
         IN  IF a.exc # ""
             THEN [out |-> Outcome(Svc("HTTPException", HTTP_400_BAD_REQUEST, a.detail), {}),
                   CS |-> CS]
             ELSE [out |-> Outcome(Svc("returned", 0,
                                       "Banco de dados '" \o r.db_name \o "' criado com sucesso."),
                                   {}),
                   CS |-> a.CS]
    ELSE IF r.op = "delete_database"
    THEN IF r.db_name \in DOMAIN CS
         THEN [out |-> Outcome(Svc("returned", 0,
                                   "Banco de dados '" \o r.db_name \o "' removido com sucesso."),
                               {}),
               CS |-> DictDel(CS, r.db_name)]
         ELSE [out |-> Outcome(Svc("HTTPException", HTTP_500_INTERNAL_SERVER_ERROR,
                                   "Erro ao remover banco de dados: '" \o r.db_name \o "'"), {}),
               CS |-> CS]
    ELSE IF r.db_name \in DOMAIN CS
         THEN [out |-> Outcome(Svc("returned", 0, CS[r.db_name]), {}), CS |-> CS]
         ELSE [out |-> Outcome(Svc("KeyError", 0, r.db_name), {}), CS |-> CS]

\* OPENAI_API_KEY as the deployment sets it in the process environment.
ConfiguredKey == "sk-env"

\* What every run starts with but the registry, the environment and the phase.
InitCommon(f) ==
    /\ focus = f
    /\ inflight = [c \in Callers |-> Idle]
    /\ running = NoCaller
    /\ serial = InitialConnectionStrings
    /\ Usuarios = {[username |-> "alice",
                    password_hash |-> bcrypt_hashpw(pw1, "saltA", TRUE).hash]}
    /\ OPENAI_API_KEY = ConfiguredKey
    /\ now = 0
    /\ bcrypt_truncates \in BOOLEAN
    /\ req = [op |-> "start", token |-> NoCredentials, at |-> 0]
    /\ resp = [status |-> 0, detail |-> "", svc |-> Svc("refused", 0, ""),
               access_token |-> NoCredentials, body |-> {}, agent_calls |-> 0]

\* The process is serving, started with every variable set.
InitFocus(f) ==
    /\ InitCommon(f)
    /\ env = EnvVars
    /\ phase = "serving"
    /\ CONNECTION_STRINGS = InitialConnectionStrings

\* The process is about to import main.py, under one of the environments.
InitStartup ==
    /\ InitCommon("startup")
    /\ env \in Environments
    /\ phase = "importing"
    /\ CONNECTION_STRINGS = <<>>

Init == InitFocus("registry")
InitUsers == InitFocus("users")
InitAuth == InitFocus("auth")

\* Answer request r, received at time now, with one of the results its route
\* produces.
Serve(r, results) ==
    /\ phase = "serving"
    /\ req' = r @@ [at |-> now]
    /\ \E o \in results :
         /\ resp' = [status |-> o.status, detail |-> o.detail, svc |-> o.svc,
                     access_token |-> o.access_token,
                     body |-> o.body, agent_calls |-> o.agent_calls]
         /\ CONNECTION_STRINGS' = o.CS
         /\ Usuarios' = o.US
         /\ OPENAI_API_KEY' = o.KEY
    /\ UNCHANGED <<now, bcrypt_truncates, focus, env, phase, concurrent>>

register_user ==
    \E r \in RegisterRequests : Serve(r, Depends(r.op, r.token, register_user_handler(r)))

login ==
    \E r \in LoginRequests : Serve(r, Depends(r.op, r.token, login_handler(r)))

reset_password ==
    \E r \in ResetRequests : Serve(r, Depends(r.op, r.token, reset_password_handler(r)))

create_database ==
    \E r \in CreateRequests : Serve(r, Depends(r.op, r.token, create_database_handler(r)))

get_available_databases ==
    \E r \in [op : {"databases"}, token : RequestTokens] :
        Serve(r, Depends(r.op, r.token, get_available_databases_handler))

delete_database ==
    \E r \in DeleteRequests : Serve(r, Depends(r.op, r.token, delete_database_handler(r)))

get_available_models ==
    \E r \in [op : {"models"}, token : RequestTokens] :
        Serve(r, Depends(r.op, r.token, get_available_models_handler))

ask_question ==
    \E r \in AskRequests : Serve(r, Depends(r.op, r.token, ask_question_handler(r)))

get_connection_string ==
    \E r \in ResolveRequests : Serve(r, get_connection_string_handler(r))

Tick ==
    /\ now < MaxTime
    /\ now' = now + 1
    /\ UNCHANGED <<CONNECTION_STRINGS, Usuarios, OPENAI_API_KEY, bcrypt_truncates, focus, env,
                   phase, concurrent, req, resp>>

\* python main.py: importing the application runs the module-level code of
\* user_service.py and builds DatabaseAgent's class attributes.
import_main ==
    /\ phase = "importing"
    /\ IF import_user_service(env) # ""
       THEN phase' = "refused" /\ UNCHANGED CONNECTION_STRINGS
       ELSE phase' = "serving" /\ CONNECTION_STRINGS' = ConnectionStringsFrom(env)
    /\ UNCHANGED <<Usuarios, OPENAI_API_KEY, now, bcrypt_truncates, focus, env, concurrent,
                   req, resp>>

Next ==
    \/ register_user
    \/ login
    \/ reset_password
    \/ create_database
    \/ get_available_databases
    \/ delete_database
    \/ get_available_models
    \/ ask_question
    \/ get_connection_string
    \/ Tick

Spec == Init /\ [][Next]_vars
SpecUsers == InitUsers /\ [][Next]_vars
SpecAuth == InitAuth /\ [][Next]_vars

\* The process is serving and callers are about to make registry calls.
InitConcurrent == InitFocus("concurrent")

\* The event loop runs a step of caller c: no other handler is holding it.
Scheduled(c) == phase = "serving" /\ running \in {NoCaller, c}

Unconcerned ==
    UNCHANGED <<Usuarios, OPENAI_API_KEY, now, bcrypt_truncates, focus, env, phase, req, resp>>

\* A request of caller c has arrived and passed get_current_user.
receive(c) ==
    /\ Scheduled(c)
    /\ inflight[c].pc = "idle"
    /\ \E r \in ConcurrentRequests :
         inflight' = [inflight EXCEPT ![c] = [pc |-> "received", r |-> r]]
    /\ UNCHANGED <<CONNECTION_STRINGS, running, serial>>
    /\ Unconcerned

\* The handler of c's request starts and runs to its last test of the
\* registry. A call that ends here takes effect here.
begin_handler(c) ==
    /\ Scheduled(c)
    /\ inflight[c].pc = "received"
    /\ LET r == inflight[c].r
           b == begin_call(CONNECTION_STRINGS, r)
       IN  IF b.done
           THEN /\ inflight' = [inflight EXCEPT ![c] =
                                  [pc |-> "answered", r |-> r, out |-> b.out,
                                   lin |-> SerialCall(serial, r).out]]
                /\ serial' = SerialCall(serial, r).CS
                /\ running' = NoCaller
           ELSE /\ inflight' = [inflight EXCEPT ![c] = [pc |-> "checked", r |-> r]]
                /\ serial' = serial
                /\ running' = IF HandlerYields(r.op) THEN NoCaller ELSE c
    /\ UNCHANGED CONNECTION_STRINGS
    /\ Unconcerned

\* The handler of c's request uses the registry and returns. The call takes
\* effect here.
end_handler(c) ==
    /\ Scheduled(c)
    /\ inflight[c].pc = "checked"
    /\ LET r == inflight[c].r
           e == end_call(CONNECTION_STRINGS, r)
       IN  /\ inflight' = [inflight EXCEPT ![c] =
                             [pc |-> "answered", r |-> r, out |-> e.out,
                              lin |-> SerialCall(serial, r).out]]
           /\ CONNECTION_STRINGS' = e.CS
           /\ serial' = SerialCall(serial, r).CS
    /\ running' = NoCaller
    /\ Unconcerned

\* The response reaches caller c.
respond(c) ==
    /\ Scheduled(c)
    /\ inflight[c].pc = "answered"
    /\ inflight' = [inflight EXCEPT ![c] = Idle]
    /\ UNCHANGED <<CONNECTION_STRINGS, running, serial>>
    /\ Unconcerned

NextConcurrent ==
    \E c \in Callers :
        \/ receive(c)
        \/ begin_handler(c)
        \/ end_handler(c)
        \/ respond(c)

SpecConcurrent == InitConcurrent /\ [][NextConcurrent]_vars

NextStartup == import_main \/ Next
SpecStartup == InitStartup /\ [][NextStartup]_vars

(***************************************************************************)
(* Properties                                                              *)
(***************************************************************************)
\* This step answers a request (the clock stands still while it does).
Answered == now' = now

\* This step answers a request to route op, and the route's handler ran.
Handled(op) ==
    Answered /\ req'.op = op /\ resp'.svc.outcome \notin {"refused", "unprocessable"}

Resolve(CS, name) == SvcHttp(DatabaseService_get_connection_string(CS, name))

AllFieldsGiven(r) == r.server # "" /\ r.database # "" /\ r.user # "" /\ r.password # ""

\* C1 as stated: a create_database call whose name is already registered
\* fails with the conflict error and leaves the registry unchanged.
C1_DuplicateNameIsConflict ==
    [][(Handled("create_database") /\ req'.db_name \in DOMAIN CONNECTION_STRINGS)
          => /\ resp'.svc = Svc("HTTPException", HTTP_400_BAD_REQUEST, AlreadyExists(req'.db_name))
             /\ CONNECTION_STRINGS' = CONNECTION_STRINGS]_vars

\* C1 amended: a create_database call whose name is already registered is
\* rejected with status 400 and leaves the registry (keys and descriptors)
\* unchanged; the error is the conflict error when the four connection fields
\* are non-empty, the validation error of the first empty field otherwise.
\* add_connection on a registered name raises and changes nothing.
C1_DuplicateNameRejected ==
    [][/\ (Handled("create_database") /\ req'.db_name \in DOMAIN CONNECTION_STRINGS)
          => /\ resp'.svc.outcome = "HTTPException"
             /\ resp'.svc.status_code = HTTP_400_BAD_REQUEST
             /\ AllFieldsGiven(req') <=> resp'.svc.detail = AlreadyExists(req'.db_name)
             /\ CONNECTION_STRINGS' = CONNECTION_STRINGS
       /\ \A n \in DOMAIN CONNECTION_STRINGS' :
             LET a == add_connection(CONNECTION_STRINGS', n, "other")
             IN  a.exc = "ValueError" /\ a.CS = CONNECTION_STRINGS']_vars

\* A create_database call for a registered name, all fields given, was just
\* answered with the conflict error.
C1_Witness ==
    /\ req.op = "create_database"
    /\ AllFieldsGiven(req)
    /\ req.db_name \in DOMAIN CONNECTION_STRINGS
    /\ resp.svc = Svc("HTTPException", HTTP_400_BAD_REQUEST, AlreadyExists(req.db_name))

\* C2: after a successful add of X, get_connection_string(X) returns the
\* descriptor built from the request's fields and the fixed driver; every
\* request other than a successful delete or add of X leaves what
\* get_connection_string(X) answers unchanged; after a successful delete of X
\* it raises not-found (404).
C2_ResolveFollowsAddAndRemove ==
    [][/\ (Handled("create_database") /\ resp'.svc.outcome = "returned")
          => Resolve(CONNECTION_STRINGS', req'.db_name)
               = Svc("returned", 0,
                     "DRIVER={ODBC Driver 17 for SQL Server};SERVER=" \o req'.server
                        \o ";DATABASE=" \o req'.database \o ";UID=" \o req'.user
                        \o ";PWD=" \o req'.password \o ";")
       /\ (Handled("delete_database") /\ resp'.svc.outcome = "returned")
          => Resolve(CONNECTION_STRINGS', req'.db_name)
               = Svc("HTTPException", HTTP_404_NOT_FOUND, NotFound(req'.db_name))
       /\ \A n \in DbNames \cup {B2} :
             ~(/\ Answered
               /\ req'.op \in {"create_database", "delete_database"}
               /\ req'.db_name = n
               /\ resp'.svc.outcome = "returned")
             => Resolve(CONNECTION_STRINGS', n) = Resolve(CONNECTION_STRINGS, n)]_vars

\* get_connection_string("X") has just returned the descriptor of an earlier
\* add of X.
C2_Witness ==
    /\ req.op = "get_connection_string"
    /\ req.db_name = "X"
    /\ resp.status = HTTP_200_OK
    /\ resp.detail = "DRIVER={ODBC Driver 17 for SQL Server};SERVER=srv;DATABASE=db;UID=usr;PWD=pwd;"

\* A request with credentials get_current_user does not accept at time t.
Rejects(token, t) == token = NoCredentials \/ verify_token(token, t).status_code # HTTP_200_OK

AuthDetails ==
    {"Not authenticated", "Token nao fornecido.", "Token expirado.", "Token invalido.",
     "Token invalido. Usuario nao encontrado."}

\* The response of an authentication failure: 401 (403 from a bearer scheme
\* that answers a missing header that way), the handler not called.
AuthError(r) ==
    /\ r.svc.outcome = "refused"
    /\ r.status \in {HTTP_401_UNAUTHORIZED, HTTP_403_FORBIDDEN}
    /\ r.detail \in AuthDetails
    /\ r.access_token = NoCredentials /\ r.body = {} /\ r.agent_calls = 0

\* C3: on register, reset_password, create_database, databases,
\* delete_database and models, a request without a bearer token, or with a
\* token verify_token rejects, is answered with an AuthError, the handler does
\* not run, and Usuarios and the registry are unchanged.
C3_GuardRefusesBeforeHandler ==
    [][(/\ Answered
        /\ req'.op \in {"register", "reset_password", "create_database", "databases",
                        "delete_database", "models"}
        /\ Rejects(req'.token, now))
          => /\ AuthError(resp')
             /\ req'.token # NoCredentials => resp'.status = HTTP_401_UNAUTHORIZED
             /\ CONNECTION_STRINGS' = CONNECTION_STRINGS
             /\ Usuarios' = Usuarios]_vars

\* A delete_database request for a registered name carrying a forged token
\* was refused and the name is still registered.
C3_Witness ==
    /\ req.op = "delete_database"
    /\ req.token \in ForgedTokens
    /\ AuthError(resp)
    /\ req.db_name \in DOMAIN CONNECTION_STRINGS

\* C4 as stated: login and /ask are both processed for a request without a
\* token or with a rejected one.
C4_LoginAndAskUngated ==
    [][(Answered /\ req'.op \in {"login", "ask"} /\ Rejects(req'.token, now))
          => resp'.svc.outcome # "refused"]_vars

\* C4 amended: login is processed whatever the request's credentials (its
\* answer is that of login_user on the username and password alone); /ask is
\* gated: without a token, or with a rejected one, it is answered with an
\* AuthError, the agent is not built or invoked, and nothing changes.
C4_LoginUngatedAskGated ==
    [][/\ (Answered /\ req'.op = "login")
          => /\ resp'.svc.outcome # "refused"
             /\ resp'.svc = SvcOf(UserService_login_user(Usuarios, req'.username,
                                                         req'.password, bcrypt_truncates))
       /\ (Answered /\ req'.op = "ask" /\ Rejects(req'.token, now))
          => /\ AuthError(resp')
             /\ UNCHANGED state]_vars

\* An /ask request without a token was refused.
C4_Witness ==
    /\ req.op = "ask"
    /\ req.token = NoCredentials
    /\ AuthError(resp)

\* login_user accepts the password p for the username u.
LoginOK(US, u, p) == UserService_login_user(US, u, p, bcrypt_truncates).exc = ""

StoredNames(US) == {r.username : r \in US}

\* The bytes of a password bcrypt hashes.
First72(p) == SubSeq(p, 1, Min(Len(p), BCRYPT_MAX_BYTES))

\* C5: a successful login for a registered username, the empty one included,
\* returns a token that verify_token accepts and resolves to that username.
C5_LoginTokenVerifies ==
    (req.op = "login" /\ resp.status = HTTP_200_OK)
        => LET v == verify_token(resp.access_token, now)
           IN  v.status_code = HTTP_200_OK /\ v.username = req.username

\* C6: a failed login for a stored username gets the same answer (status,
\* message, no token) as the same login for a username that is not stored,
\* and changes nothing.
C6_FailedLoginsAlike ==
    (/\ req.op = "login"
     /\ resp.status # HTTP_200_OK
     /\ req.username \in StoredNames(Usuarios))
        => \A u \in LoginNames \ StoredNames(Usuarios) :
             \A o \in login_handler([req EXCEPT !.username = u]) :
                /\ o.status = resp.status
                /\ o.detail = resp.detail
                /\ o.svc = resp.svc
                /\ o.access_token = resp.access_token
                /\ resp.access_token = NoCredentials

ResetDone == Answered /\ req'.op = "reset_password" /\ resp'.status = HTTP_200_OK

\* C7 as stated: after a successful reset the new password logs in and every
\* password that logged in before the reset no longer does.
C7_OldPasswordFailsAfterReset ==
    [][ResetDone
          => /\ LoginOK(Usuarios', req'.username, req'.password)
             /\ \A p \in Passwords :
                  LoginOK(Usuarios, req'.username, p) => ~LoginOK(Usuarios', req'.username, p)]_vars

\* C7 amended: after a successful reset_password(user, new, new) a login with
\* new succeeds and a login with any password whose first 72 bytes differ
\* from those of new fails (so the old password fails unless it has the bytes
\* of the new one); a step that changes the stored rows changes what logs in
\* for a stored user only if it is a successful reset for that user.
C7_ResetReplacesPassword ==
    [][/\ ResetDone
          => /\ LoginOK(Usuarios', req'.username, req'.password)
             /\ \A p \in Passwords :
                  First72(p) # First72(req'.password) => ~LoginOK(Usuarios', req'.username, p)
       /\ \/ Usuarios' = Usuarios
          \/ \A u \in StoredNames(Usuarios) :
                ~(ResetDone /\ req'.username = u)
                   => \A p \in Passwords : LoginOK(Usuarios', u, p) = LoginOK(Usuarios, u, p)]_vars

\* alice's password was reset from pw1 to pwMax: pwMax logs in, pw1 does not.
C7_Witness ==
    /\ req.op = "reset_password" /\ resp.status = HTTP_200_OK
    /\ req.username = "alice" /\ req.password = pwMax
    /\ LoginOK(Usuarios, "alice", pwMax)
    /\ ~LoginOK(Usuarios, "alice", pw1)

UniqueUsernames(US) == \A r1, r2 \in US : r1.username = r2.username => r1 = r2

RegisterOfStored == Handled("register") /\ req'.username \in StoredNames(Usuarios)

\* C8 as stated: a register call for a stored username fails with status 500
\* and leaves the stored rows unchanged.
C8_DuplicateRegisterIs500 ==
    [][RegisterOfStored
          => resp'.status = HTTP_500_INTERNAL_SERVER_ERROR /\ Usuarios' = Usuarios]_vars

\* C8 amended: no two stored credentials share a username; a register call
\* for a stored username fails and leaves the rows, and so what logs in,
\* unchanged; the failure is the storage error (500) when the two passwords
\* match and bcrypt hashes them, and the validation error (400) of the
\* earlier checks otherwise.
C8_DuplicateRegisterRejected ==
    [][/\ UniqueUsernames(Usuarios) /\ UniqueUsernames(Usuarios')
       /\ RegisterOfStored
          => /\ Usuarios' = Usuarios
             /\ \A p \in Passwords :
                  LoginOK(Usuarios', req'.username, p) = LoginOK(Usuarios, req'.username, p)
             /\ resp'.status =
                  IF /\ req'.password = req'.confirm_password
                     /\ bcrypt_hashpw(req'.password, "saltA", bcrypt_truncates).exc = ""
                  THEN HTTP_500_INTERNAL_SERVER_ERROR
                  ELSE HTTP_400_BAD_REQUEST]_vars

\* A second registration of alice, with another password, got 500; the
\* first password still logs in and the second does not.
C8_Witness ==
    /\ req.op = "register" /\ req.username = "alice" /\ req.password = pwMax
    /\ resp.status = HTTP_500_INTERNAL_SERVER_ERROR
    /\ LoginOK(Usuarios, "alice", pw1)
    /\ ~LoginOK(Usuarios, "alice", pwMax)

\* C9: a token issued by login carries an expiry, and from that time on
\* verify_token rejects it as expired.
C9_IssuedTokenExpires ==
    (req.op = "login" /\ resp.status = HTTP_200_OK)
        => /\ "exp" \in DOMAIN resp.access_token.payload
           /\ verify_token(resp.access_token, resp.access_token.payload["exp"]).detail
                = "Token expirado."

\* A token whose exp claim lies before t.
ExpiryPassed(token, t) ==
    /\ token.kind = "jwt"
    /\ "exp" \in DOMAIN token.payload
    /\ token.payload["exp"] < t

\* Signed with SECRET_KEY under the one algorithm verify_token allows.
ValidSignature(token) ==
    token.alg = ALGORITHM /\ token.sig = HMAC(SECRET_KEY, token.alg, token.payload)

\* C10 as stated: a token whose expiry lies in the past is rejected as
\* "Token expirado.", whatever its signature.
C10_PastExpiryAlwaysExpired ==
    /\ \A token \in Tokens :
         ExpiryPassed(token, now) => verify_token(token, now).detail = "Token expirado."
    /\ (req.op \in GuardedRoutes /\ ExpiryPassed(req.token, req.at))
         => resp.status = HTTP_401_UNAUTHORIZED /\ resp.detail = "Token expirado."

\* C10 amended: a token whose expiry lies in the past is never accepted; it
\* is rejected with 401 "Token expirado." when its signature is valid, and
\* with 401 "Token invalido." when it is not (the signature is checked
\* before the expiry).
C10_PastExpiryRejected ==
    /\ \A token \in Tokens :
         ExpiryPassed(token, now)
            => LET v == verify_token(token, now)
               IN  /\ v.status_code = HTTP_401_UNAUTHORIZED
                   /\ v.detail = IF ValidSignature(token) THEN "Token expirado."
                                 ELSE "Token invalido."
    /\ (req.op \in GuardedRoutes /\ ExpiryPassed(req.token, req.at))
         => /\ AuthError(resp)
            /\ resp.status = HTTP_401_UNAUTHORIZED
            /\ resp.detail = IF ValidSignature(req.token) THEN "Token expirado."
                             ELSE "Token invalido."

\* A guarded request carrying a validly signed token whose expiry had passed
\* was refused as expired.
C10_Witness ==
    /\ req.op = "databases"
    /\ req.token = create_access_token([username |-> "alice", exp |-> 0])
    /\ req.at > 0
    /\ resp.status = HTTP_401_UNAUTHORIZED /\ resp.detail = "Token expirado."

\* C11: an authenticated delete_database for a name that is not registered
\* answers 404, an authenticated reset_password (two equal passwords that
\* bcrypt hashes) for a username that is not stored answers 404, and neither
\* changes the state.
C11_NotFoundIs404 ==
    [][/\ (Handled("delete_database") /\ req'.db_name \notin DOMAIN CONNECTION_STRINGS)
          => resp'.status = HTTP_404_NOT_FOUND /\ UNCHANGED state
       /\ (/\ Handled("reset_password")
           /\ req'.username \notin StoredNames(Usuarios)
           /\ req'.password = req'.confirm_password
           /\ bcrypt_hashpw(req'.password, "saltA", bcrypt_truncates).exc = "")
          => resp'.status = HTTP_404_NOT_FOUND /\ UNCHANGED state]_vars

\* C12 as stated: the listing is exactly the set of registered names, and
\* the two built-in names are always in it.
C12_ListHasDefaults ==
    [][Handled("databases")
          => /\ resp'.body = DOMAIN CONNECTION_STRINGS
             /\ {B1, B2} \subseteq resp'.body]_vars

\* C12 amended: the listing is exactly the set of names registered when it
\* is asked for, and changes nothing; a built-in name leaves the registry,
\* and so the listing, only by a delete_database of that name.
C12_ListIsRegistry ==
    [][/\ Handled("databases")
          => /\ resp'.status = HTTP_200_OK
             /\ resp'.body = DOMAIN CONNECTION_STRINGS
             /\ UNCHANGED state
       /\ \A d \in {B1, B2} :
            (d \in DOMAIN CONNECTION_STRINGS /\ d \notin DOMAIN CONNECTION_STRINGS')
               => Handled("delete_database") /\ req'.db_name = d]_vars

\* A listing after B1 was deleted and X added: X is in it, B1 is not.
C12_Witness ==
    /\ req.op = "databases" /\ resp.status = HTTP_200_OK
    /\ resp.body = DOMAIN CONNECTION_STRINGS
    /\ "X" \in resp.body /\ B2 \in resp.body /\ B1 \notin resp.body

\* C13: the process reaches a serving state only if every startup variable
\* is set: the signing secret, the credential store's connection parameters
\* and the five parameters of each of the two built-in connections.
C13_ServesOnlyWithEveryVariable == phase = "serving" => env = EnvVars

\* C14: on every /ask request the agent is invoked at most once, and only
\* for a model of the allow-list and a database name that is in the registry
\* when the request is handled (the same holds for building the agent, which
\* is when the api_key is installed); a request is answered 200 only with
\* the agent's answer, and a failure of the agent is answered 500, with no
\* answer in the response.
C14_AgentAfterValidation ==
    [][(Answered /\ req'.op = "ask")
          => LET Validated == /\ req'.model \in AVAILABLE_MODELS
                              /\ req'.db_name \in DOMAIN CONNECTION_STRINGS
                              /\ req'.db_name \in DOMAIN CONNECTION_STRINGS'
             IN  /\ resp'.agent_calls \in {0, 1}
                 /\ resp'.agent_calls = 1 => Validated
                 /\ OPENAI_API_KEY' # OPENAI_API_KEY => Validated
                 /\ resp'.status = HTTP_200_OK => resp'.agent_calls = 1
                 /\ resp'.svc.outcome = "HTTPException"
                      => /\ resp'.status = HTTP_500_INTERNAL_SERVER_ERROR
                         /\ resp'.body = {}
                 /\ resp'.status \in {HTTP_200_OK, HTTP_401_UNAUTHORIZED, HTTP_403_FORBIDDEN,
                                      HTTP_422_UNPROCESSABLE, HTTP_500_INTERNAL_SERVER_ERROR}
                 /\ CONNECTION_STRINGS' = CONNECTION_STRINGS /\ Usuarios' = Usuarios]_vars

\* The agent was invoked, once, for a listed model and a registered name,
\* failed, and the request was answered 500.
C14_Witness ==
    /\ req.op = "ask"
    /\ req.model \in AVAILABLE_MODELS /\ req.db_name \in DOMAIN CONNECTION_STRINGS
    /\ resp.agent_calls = 1
    /\ resp.svc.outcome = "HTTPException"
    /\ resp.status = HTTP_500_INTERNAL_SERVER_ERROR

\* C15: an authenticated create_database for a name that is not registered,
\* with the four fields non-empty, answers 201 and registers the name; the
\* same call for a name that is registered (the repeated call) answers with
\* the conflict error, status 400 or 409, and leaves the registry unchanged.
C15_Create201ThenConflict ==
    [][(Handled("create_database") /\ req'.db_name # "" /\ AllFieldsGiven(req'))
          => IF req'.db_name \notin DOMAIN CONNECTION_STRINGS
             THEN /\ resp'.status = HTTP_201_CREATED
                  /\ req'.db_name \in DOMAIN CONNECTION_STRINGS'
             ELSE /\ resp'.status \in {HTTP_400_BAD_REQUEST, 409}
                  /\ CONNECTION_STRINGS' = CONNECTION_STRINGS]_vars

\* C17: an authenticated create_database or delete_database request that is
\* answered with a failure status (4xx or 5xx) leaves the registry as it was.
C17_FailureLeavesRegistry ==
    [][(/\ Answered
        /\ req'.op \in {"create_database", "delete_database"}
        /\ resp'.svc.outcome # "refused"
        /\ resp'.status >= HTTP_400_BAD_REQUEST)
          => CONNECTION_STRINGS' = CONNECTION_STRINGS]_vars

\* C18: an /ask request that supplies no api_key runs with the key the
\* process was configured with, whatever api_key earlier requests supplied.
C18_OverrideIsPerRequest ==
    [][(Handled("ask") /\ req'.api_key = "")
          => OPENAI_API_KEY = ConfiguredKey /\ OPENAI_API_KEY' = ConfiguredKey]_vars

\* C16: however the registry calls of several callers interleave, the
\* registry is the one that running the calls one at a time, in the order
\* they took effect, leaves, and every answered call has the outcome it has
\* in that serial run; no call is cut short by what another did in between.
C16_Linearizable ==
    /\ CONNECTION_STRINGS = serial
    /\ \A c \in Callers :
         inflight[c].pc = "answered"
            => /\ inflight[c].out = inflight[c].lin
               /\ inflight[c].out.svc.outcome # "KeyError"
               /\ inflight[c].out.svc.status_code # HTTP_500_INTERNAL_SERVER_ERROR

\* Two callers had an add of the same name in flight at once: one has
\* succeeded, the other got the conflict error, and the name is registered.
C16_Witness ==
    \E c1, c2 \in Callers :
        /\ c1 # c2
        /\ inflight[c1].pc = "answered" /\ inflight[c2].pc = "answered"
        /\ inflight[c1].r.op = "create_database" /\ inflight[c1].r.db_name = "X"
        /\ inflight[c2].r = inflight[c1].r
        /\ inflight[c1].out.svc.outcome = "returned"
        /\ inflight[c2].out.svc = Svc("HTTPException", HTTP_400_BAD_REQUEST, AlreadyExists("X"))
        /\ "X" \in DOMAIN CONNECTION_STRINGS

====
